---------------------------- MODULE Spec2Model ----------------------------
(***************************************************************************)
(* storagefancontrol: a closed-loop chassis fan controller.  The hottest   *)
(* drive temperature (Smart) feeds a discrete PID controller (PID) whose   *)
(* output is turned into a PWM code and sent to ipmitool (FanControl).     *)
(*                                                                         *)
(* Numbers.  Temperatures, errors, the integrator and PWM codes are Python *)
(* ints.  PID gains and PID outputs are kept in hundredths (a gain of 2 is *)
(* 200, a gain of 0.01 is 1, an output of 20.1 percent is 2010), so that   *)
(* fractional gains are exact.  Text handed to ipmitool is a sequence of   *)
(* one-character strings, so that formatting is computed, not assumed.     *)
(***************************************************************************)
EXTENDS Integers, Sequences, FiniteSets, TLC

VARIABLES
    pid,          \* the PID object (storagefancontrol.py:40-53)
    chassis,      \* the FanControl object (storagefancontrol.py:217-230)
    temp_source,  \* the Smart object (storagefancontrol.py:95-104)
    main,         \* locals of main(): highest_temperature, fan_speed
    pc,           \* the statement the main process is at; a harness is
                  \* "idle" before its first call, "returned" after one
    phase,        \* "init" | "running" | "shutdown" (harness specs: "call")
    frame,        \* the activation of set_pwm in progress
    pool,         \* the multiprocessing pool of get_highest_temperature
    ipmi,         \* the last command ipmitool was launched with (<<>>: none)
    logged,       \* the last record written by log()
    exit_status,  \* the exit status once pc = "exited" (0 before)
    exit_cause,   \* what ended the process ("none" before)
    signalled,    \* the signal delivered to the process, and where
    calls,        \* the last two completed set_pwm calls (arg, pre, wrote)
    launches,     \* ipmitool launches that failed, and launches tried after
                  \* the first failed one
    startup       \* the instances of the script, each at its place in the
                  \* __main__ block (storagefancontrol.py:415-426)

vars == <<pid, chassis, temp_source, main, pc, phase, frame, pool, ipmi,
          logged, exit_status, exit_cause, signalled, calls, launches,
          startup>>

---------------------------------------------------------------------------
(* Text: Python str() and string concatenation on character sequences.    *)

DigitChars == <<"0", "1", "2", "3", "4", "5", "6", "7", "8", "9">>

RECURSIVE Digits(_)
Digits(n) ==
    IF n < 10 THEN <<DigitChars[n + 1]>>
    ELSE Append(Digits(n \div 10), DigitChars[(n % 10) + 1])

\* str(n) for a Python int
StrInt(n) == IF n < 0 THEN <<"-">> \o Digits(-n) ELSE Digits(n)

\* str(x) for the Python float x = twice / 2 (repr of a multiple of 0.5)
StrHalf(twice) ==
    LET mag  == IF twice < 0 THEN -twice ELSE twice
        sign == IF twice < 0 THEN <<"-">> ELSE <<>>
    IN sign \o Digits(mag \div 2) \o <<".">> \o
       (IF mag % 2 = 0 THEN <<"0">> ELSE <<"5">>)

\* int(x) for x = n / d with d > 0: truncation toward zero
Trunc(n, d) == IF n >= 0 THEN n \div d ELSE -((-n) \div d)

\* round(x) for x = n / d with n >= 0, d > 0: to nearest, a tie to even
Round(n, d) ==
    LET q == n \div d
        r == n % d
    IN IF 2 * r < d THEN q
       ELSE IF 2 * r > d THEN q + 1
       ELSE IF q % 2 = 0 THEN q ELSE q + 1

---------------------------------------------------------------------------
(* PID                                                                     *)

IntegratorClampNoMin(i, imax, imin) == IF i > imax THEN imax ELSE i

\* lines 68-71
IntegratorClamp(i, imax, imin) ==
    IF i > imax THEN imax ELSE IF i < imin THEN imin ELSE i

IntegratorStepMinus(i, e) == i - e

\* line 66
IntegratorStep(i, e) == i + e

\* PID.__init__ followed by set_target_value, as get_pid_settings does
PID_init(P, I, D, Derivator, Integrator, Imax, Imin, target) ==
    [Kp |-> P, Ki |-> I, Kd |-> D, Derivator |-> Derivator,
     Integrator |-> Integrator, Integrator_max |-> Imax,
     Integrator_min |-> Imin, set_point |-> target, error |-> 0,
     P_value |-> 0, I_value |-> 0, D_value |-> 0]

PID_updateKeepDerivator(p, current_value) ==
    LET e  == current_value - p.set_point
        In == IntegratorClamp(IntegratorStep(p.Integrator, e),
                              p.Integrator_max, p.Integrator_min)
    IN [p EXCEPT !.error = e, !.P_value = p.Kp * e,
                 !.D_value = p.Kd * (e + p.Derivator),
                 !.Integrator = In, !.I_value = In * p.Ki]

PID_updateDifference(p, current_value) ==
    LET e  == current_value - p.set_point
        In == IntegratorClamp(IntegratorStep(p.Integrator, e),
                              p.Integrator_max, p.Integrator_min)
    IN [p EXCEPT !.error = e, !.P_value = p.Kp * e,
                 !.D_value = p.Kd * (e - p.Derivator),
                 !.Derivator = e, !.Integrator = In, !.I_value = In * p.Ki]

\* PID.update: the PID object after update(current_value)
PID_update(p, current_value) ==
    LET e  == current_value - p.set_point
        Pv == p.Kp * e
        Dv == p.Kd * (e + p.Derivator)
        In == IntegratorClamp(IntegratorStep(p.Integrator, e),
                              p.Integrator_max, p.Integrator_min)
    IN [p EXCEPT !.error = e, !.P_value = Pv, !.D_value = Dv,
                 !.Derivator = e, !.Integrator = In, !.I_value = In * p.Ki]

\* the value update returns (line 75), in hundredths
PID_output(p) == p.P_value + p.I_value + p.D_value

---------------------------------------------------------------------------
(* FanControl.set_pwm: the pure part                                       *)

REAR_HALF_BELOW == 40
REAR_AUTO_BELOW == 20

ClampPwmNoMax(value, pwm_min, pwm_max) == IF value < pwm_min THEN 0 ELSE value

ClampPwmToMin(value, pwm_min, pwm_max) ==
    LET v == IF value > pwm_max THEN pwm_max ELSE value
    IN IF v < pwm_min THEN pwm_min ELSE v

\* lines 252-261
ClampPwm(value, pwm_min, pwm_max) ==
    LET v == IF value > pwm_max THEN pwm_max ELSE value
    IN IF v < pwm_min THEN 0 ELSE v

\* lines 264-269: raw_rear as twice its value, with its Python type
RawRear(value) ==
    IF value < REAR_HALF_BELOW
    THEN [type |-> "float", twice |-> value]
    ELSE [type |-> "int", twice |-> 2 * value]

RearTextNoAuto(value) ==
    LET r == RawRear(value)
    IN IF r.type = "float" THEN StrHalf(r.twice) ELSE StrInt(r.twice \div 2)

\* lines 271-275: str(raw_rear) after the "set to auto" test
RearText(value) ==
    LET r == RawRear(value)
    IN IF r.twice < 2 * REAR_AUTO_BELOW THEN <<"0", "0">>
       ELSE IF r.type = "float" THEN StrHalf(r.twice)
       ELSE StrInt(r.twice \div 2)

Ox == <<"0", "x">>

IpmiArgsOneFront(value) ==
    << <<"r", "a", "w">>, <<"0", "x", "3", "a">>, <<"0", "x", "0", "1">>,
       <<"0", "x", "0", "0">>, <<"0", "x", "0", "0">>,
       Ox \o RearText(value), <<"0", "x", "0", "0">>,
       Ox \o StrInt(value), <<"0", "x", "0", "0">>,
       <<"0", "x", "0", "0">>, <<"0", "x", "0", "0">> >>

\* lines 274-288: ipmitool_args.split()
IpmiArgs(value) ==
    << <<"r", "a", "w">>, <<"0", "x", "3", "a">>, <<"0", "x", "0", "1">>,
       <<"0", "x", "0", "0">>,               \* CPU
       <<"0", "x", "0", "0">>,
       Ox \o RearText(value),               \* REAR
       <<"0", "x", "0", "0">>,
       Ox \o StrInt(value),                 \* FRNT1
       Ox \o StrInt(value),                 \* FRNT2
       <<"0", "x", "0", "0">>, <<"0", "x", "0", "0">> >>

NeedsWriteAlways(previous, value) == TRUE

\* line 292
NeedsWrite(previous, value) == previous # value

PercentToPwmRound(percent, pwm_max) == Round(percent * pwm_max, 100 * 100)

\* set_fan_speed lines 314-316: int(percent * (float(pwm_max) / 100)),
\* percent in hundredths
PercentToPwm(percent, pwm_max) == Trunc(percent * pwm_max, 100 * 100)

\* FanControl.__init__ followed by get_chassis_settings
FanControl_init(pwm_min, pwm_max, pwm_safety) ==
    [pwm_min |-> pwm_min, pwm_max |-> pwm_max, pwm_safety |-> pwm_safety,
     fan_speed |-> 50 * 100, pwm_value |-> 0, previous_pwm_value |-> 0]

---------------------------------------------------------------------------
(* Smart: one device's reading                                             *)

\* What smartctl printed for a device, as far as get_temperature reads it:
\* whether the Temperature_Celsius label is there, and the rest of its line
\* cut as lines 163 and 173 cut it: cols is rest.split("   "), each column
\* given as its split(" "), a sequence of tokens.
SmartData(label, cols) == [label |-> label, cols |-> cols]

TEMPERATURE_DISTANCE == 10

IsDigit(c) == \E i \in 1..10 : DigitChars[i] = c

DigitValue(c) == (CHOOSE i \in 1..10 : DigitChars[i] = c) - 1

RECURSIVE DigitsValue(_)
DigitsValue(s) ==
    IF Len(s) = 0 THEN 0
    ELSE 10 * DigitsValue(SubSeq(s, 1, Len(s) - 1)) + DigitValue(s[Len(s)])

\* int(text) succeeds: an optional sign and at least one digit
IsIntText(s) ==
    LET body == IF Len(s) > 0 /\ s[1] = "-" THEN Tail(s) ELSE s
    IN Len(body) > 0 /\ \A i \in 1..Len(body) : IsDigit(body[i])

IntOfText(s) ==
    IF s[1] = "-" THEN -DigitsValue(Tail(s)) ELSE DigitsValue(s)

\* column [k].split(" ")[1] can be taken (k counts from 0)
HasToken(cols, k) == k + 1 <= Len(cols) /\ Len(cols[k + 1]) >= 2

\* get_parameter_from_smart: the second token of the column at distance (the
\* last column when there are no more than distance of them), on IndexError
\* that of the next column, as text; the int 0 when the label is absent
\* (line 178); type "IndexError" when the except block raises it again
get_parameter_from_smart(data, distance) ==
    IF ~data.label THEN [type |-> "int", text |-> <<"0">>]
    ELSE LET length == Len(data.cols)
             d == IF length <= distance THEN length - 1 ELSE distance
         IN IF HasToken(data.cols, d)
            THEN [type |-> "str", text |-> data.cols[d + 1][2]]
            ELSE IF HasToken(data.cols, d + 1)
            THEN [type |-> "str", text |-> data.cols[d + 2][2]]
            ELSE [type |-> "IndexError", text |-> <<>>]

\* get_temperature lines 185-188: int(...) of the above; ok = FALSE with the
\* exception that leaves the call: the IndexError of the above, or the
\* ValueError of int()
get_temperature(data) ==
    LET v == get_parameter_from_smart(data, TEMPERATURE_DISTANCE)
    IN IF v.type = "IndexError"
       THEN [ok |-> FALSE, temperature |-> 0, exc |-> "IndexError"]
       ELSE IF IsIntText(v.text)
       THEN [ok |-> TRUE, temperature |-> IntOfText(v.text), exc |-> "none"]
       ELSE [ok |-> FALSE, temperature |-> 0, exc |-> "ValueError"]

RECURSIVE ReduceLast(_, _)
ReduceLast(results, highest) ==
    IF results = <<>> THEN highest ELSE ReduceLast(Tail(results), Head(results))

\* lines 201-203: the loop over results, from highest_temperature = highest
RECURSIVE ReduceHighest(_, _)
ReduceHighest(results, highest) ==
    IF results = <<>> THEN highest
    ELSE ReduceHighest(Tail(results),
                       IF Head(results) > highest THEN Head(results)
                       ELSE highest)

\* get_block_devices lines 123-129: the names in the third column of what
\* "geom part status -s" prints (geom), less the object's boot_device
get_block_devices(geom, boot_device) == geom \ {boot_device}

\* Smart.__init__: get_block_devices runs inside the constructor, with the
\* boot_device the constructor has just set
Smart_init(geom) ==
    [block_devices |-> get_block_devices(geom, "ada0"),
     device_filter |-> "sd", boot_device |-> "ada0",
     highest_temperature |-> 0, smart_workers |-> 24]

\* get_temp_source: the object is built, then given the configured values
get_temp_source(geom, device_filter, boot_device, smart_workers) ==
    [Smart_init(geom) EXCEPT !.device_filter = device_filter,
                             !.boot_device = boot_device,
                             !.smart_workers = smart_workers]

---------------------------------------------------------------------------
(* Control: calls, returns and exceptions of the main process              *)

IPMITOOL == <<"i", "p", "m", "i", "t", "o", "o", "l">>

NoFrame ==
    [arg |-> 0, value |-> 0, ipmitool_args |-> <<>>, ret |-> "none",
     pre |-> 0, wrote |-> FALSE, caller |-> "none"]

NoLog ==
    [valid |-> FALSE, TMP |-> 0, PCT |-> 0, PWM |-> 0, P |-> 0, I |-> 0,
     D |-> 0, E |-> 0]

EmptyResults == [d \in {} |-> 0]

NoPool ==
    [state |-> "none", order |-> <<>>, pending |-> {}, running |-> {},
     lost |-> {}, results |-> EmptyResults, failed |-> FALSE,
     exc |-> "none", read |-> EmptyResults, ret |-> "none"]

\* the activation record of set_pwm(value), to return to ret; caller names
\* the function the call is made from
NewFrame(value, ret) ==
    [arg |-> value, value |-> value, ipmitool_args |-> <<>>, ret |-> ret,
     pre |-> chassis.previous_pwm_value, wrote |-> FALSE, caller |-> "main"]

\* the last two completed calls, the newest last
Completed(f) ==
    LET all == Append(calls, [arg |-> f.arg, pre |-> f.pre, wrote |-> f.wrote])
    IN IF Len(all) > 2 THEN Tail(all) ELSE all

\* sys.exit(code) or an exception leaving the statement at pc: the handler
\* of line 410 takes KeyboardInterrupt and SystemExit raised inside the try
\* block; anything else, and anything raised outside it, ends the process.
Raise(exc) ==
    IF phase = "running" /\ exc \in {"KeyboardInterrupt", "SystemExit"}
    THEN /\ phase' = "shutdown"
         /\ frame' = NewFrame(chassis.pwm_safety, "sys_exit")
         /\ pc' = "pwm_assign"
         /\ exit_status' = exit_status
         /\ exit_cause' = exit_cause
    ELSE /\ phase' = phase
         /\ frame' = frame
         /\ pc' = "exited"
         /\ exit_status' = 1
         /\ exit_cause' = exc

---------------------------------------------------------------------------
(* FanControl.set_pwm, statement by statement                              *)

\* lines 252-292: clamp, build the command, store pwm_value, test for change
set_pwm_assign ==
    /\ pc = "pwm_assign"
    /\ LET v == ClampPwm(frame.arg, chassis.pwm_min, chassis.pwm_max)
           f == [frame EXCEPT !.value = v, !.ipmitool_args = IpmiArgs(v)]
       IN /\ chassis' = [chassis EXCEPT !.pwm_value = v]
          /\ IF NeedsWrite(chassis.previous_pwm_value, v)
             THEN /\ pc' = "pwm_popen"
                  /\ frame' = f
                  /\ calls' = calls
             ELSE /\ pc' = f.ret
                  /\ frame' = f
                  /\ calls' = Completed(f)
    /\ UNCHANGED <<pid, temp_source, main, phase, pool, ipmi, logged,
                   exit_status, exit_cause, signalled, startup, launches>>

\* lines 294-297: ipmitool is launched with the command
set_pwm_popen ==
    /\ pc = "pwm_popen"
    /\ ipmi' = <<IPMITOOL>> \o frame.ipmitool_args
    /\ frame' = [frame EXCEPT !.wrote = TRUE]
    /\ pc' = "pwm_store"
    /\ launches' = [launches EXCEPT !.after_failure =
                        IF launches.failed > 0 THEN @ + 1 ELSE @]
    /\ UNCHANGED <<pid, chassis, temp_source, main, phase, pool, logged,
                   exit_status, exit_cause, signalled, calls, startup>>

set_pwm_popen_oserror_ignored ==
    /\ pc = "pwm_popen"
    /\ pc' = frame.ret
    /\ launches' = [launches EXCEPT !.failed = @ + 1, !.after_failure =
                        IF launches.failed > 0 THEN @ + 1 ELSE @]
    /\ UNCHANGED <<pid, chassis, temp_source, main, phase, frame, pool, ipmi,
                   logged, exit_status, exit_cause, signalled, calls,
                   startup>>

\* lines 298-300: ipmitool cannot be launched (OSError): sys.exit(1)
set_pwm_popen_oserror ==
    /\ pc = "pwm_popen"
    /\ Raise("SystemExit")
    /\ launches' = [launches EXCEPT !.failed = @ + 1, !.after_failure =
                        IF launches.failed > 0 THEN @ + 1 ELSE @]
    /\ UNCHANGED <<pid, chassis, temp_source, main, pool, ipmi, logged,
                   signalled, calls, startup>>

set_pwm_store_forgotten ==
    /\ pc = "pwm_store"
    /\ pc' = frame.ret
    /\ calls' = Completed(frame)
    /\ UNCHANGED <<pid, chassis, temp_source, main, phase, frame, pool, ipmi,
                   logged, exit_status, exit_cause, signalled, startup,
                   launches>>

\* lines 302-304: communicate(), then previous_pwm_value = value
set_pwm_store ==
    /\ pc = "pwm_store"
    /\ chassis' = [chassis EXCEPT !.previous_pwm_value = frame.value]
    /\ pc' = frame.ret
    /\ calls' = Completed(frame)
    /\ UNCHANGED <<pid, temp_source, main, phase, frame, pool, ipmi, logged,
                   exit_status, exit_cause, signalled, startup, launches>>

\* FanControl.set_pwm run to completion from previous_pwm_value = previous,
\* the launch succeeding: what it stores, whether it writes, and the command
set_pwm_run(previous, value, pwm_min, pwm_max) ==
    LET v == ClampPwm(value, pwm_min, pwm_max)
        w == NeedsWrite(previous, v)
    IN [pwm_value |-> v,
        previous_pwm_value |-> IF w THEN v ELSE previous,
        wrote |-> w,
        ipmitool_args |-> IpmiArgs(v)]

\* set_fan_speed lines 313-316, up to the call of set_pwm
set_fan_speed(percent, ret) ==
    /\ chassis' = [chassis EXCEPT !.fan_speed = percent]
    /\ frame' = [NewFrame(PercentToPwm(percent, chassis.pwm_max), ret)
                    EXCEPT !.caller = "set_fan_speed"]
    /\ pc' = "pwm_assign"

---------------------------------------------------------------------------
(* Smart.get_highest_temperature: pool.map over the block devices          *)

\* the lists a set can be iterated as
Orders(S) ==
    {o \in [1..Cardinality(S) -> S] :
        \A i, j \in 1..Cardinality(S) : i # j => o[i] # o[j]}

\* lines 196-198: the pool is created and every device is submitted; a
\* width below 1 makes mp.Pool raise ValueError.  Tasks are handed out one
\* device at a time (the chunk size map computes is 1 while there are no
\* more devices than four times the workers).
pool_map(ret) ==
    IF temp_source.smart_workers < 1
    THEN /\ Raise("ValueError")
         /\ pool' = pool
    ELSE /\ \E o \in Orders(temp_source.block_devices) :
                pool' = [state |-> "mapping", order |-> o,
                         pending |-> temp_source.block_devices,
                         running |-> {}, lost |-> {},
                         results |-> EmptyResults, failed |-> FALSE,
                         exc |-> "none", read |-> EmptyResults,
                         ret |-> ret]
         /\ pc' = "pool_map"
         /\ UNCHANGED <<phase, frame, exit_status, exit_cause>>

\* an idle worker process takes the next device
worker_take(d) ==
    /\ pc = "pool_map"
    /\ d \in pool.pending
    /\ Cardinality(pool.running) < temp_source.smart_workers
    /\ pool' = [pool EXCEPT !.pending = @ \ {d}, !.running = @ \cup {d}]
    /\ UNCHANGED <<pid, chassis, temp_source, main, pc, phase, frame, ipmi,
                   logged, exit_status, exit_cause, signalled, calls,
                   startup, launches>>

\* a worker finishes get_temperature(d) on what smartctl printed: its
\* result, or the exception it raised, goes back to the parent, which keeps
\* the first exception to arrive
worker_done(d, data) ==
    /\ pc = "pool_map"
    /\ d \in pool.running
    /\ LET r == get_temperature(data)
       IN pool' = [pool EXCEPT
                     !.running = @ \ {d},
                     !.failed = @ \/ ~r.ok,
                     !.exc = IF @ = "none" THEN r.exc ELSE @,
                     !.read = [x \in DOMAIN @ \cup {d} |->
                                 IF x = d THEN data ELSE @[x]],
                     !.results = IF r.ok
                                 THEN [x \in DOMAIN @ \cup {d} |->
                                         IF x = d THEN r.temperature ELSE @[x]]
                                 ELSE @]
    /\ UNCHANGED <<pid, chassis, temp_source, main, pc, phase, frame, ipmi,
                   logged, exit_status, exit_cause, signalled, calls,
                   startup, launches>>

\* lines 145-148 in a worker: smartctl cannot be launched, sys.exit(1) ends
\* the worker process and its task is never answered
worker_oserror(d) ==
    /\ pc = "pool_map"
    /\ d \in pool.running
    /\ pool' = [pool EXCEPT !.running = @ \ {d}, !.lost = @ \cup {d}]
    /\ UNCHANGED <<pid, chassis, temp_source, main, pc, phase, frame, ipmi,
                   logged, exit_status, exit_cause, signalled, calls,
                   startup, launches>>

\* the list pool.map returns: the readings in the order of the devices
ResultList(pl) == [i \in 1..Len(pl.order) |-> pl.results[pl.order[i]]]

\* lines 198-206: map returns once every task is answered, re-raising a
\* task's exception; otherwise the readings are reduced to the highest
pool_return ==
    /\ pc = "pool_map"
    /\ pool.pending = {} /\ pool.running = {} /\ pool.lost = {}
    /\ IF pool.failed
       THEN /\ Raise(pool.exc)
            /\ pool' = [pool EXCEPT !.state = "raised"]
            /\ UNCHANGED <<temp_source, main>>
       ELSE /\ LET h == ReduceHighest(ResultList(pool), 0)
               IN /\ temp_source' = [temp_source EXCEPT
                                       !.highest_temperature = h]
                  /\ main' = [main EXCEPT !.highest_temperature = h]
            /\ pool' = [pool EXCEPT !.state = "returned"]
            /\ pc' = pool.ret
            /\ UNCHANGED <<phase, frame, exit_status, exit_cause>>
    /\ UNCHANGED <<pid, chassis, ipmi, logged, signalled, calls, startup,
                   launches>>

---------------------------------------------------------------------------
(* main()                                                                  *)

\* line 400: chassis.set_pwm(chassis.pwm_min), before the try block
main_init ==
    /\ pc = "main_init"
    /\ frame' = NewFrame(chassis.pwm_min, "main_try")
    /\ pc' = "pwm_assign"
    /\ UNCHANGED <<pid, chassis, temp_source, main, phase, pool, ipmi,
                   logged, exit_status, exit_cause, signalled, calls,
                   startup, launches>>

\* line 402: the try block is entered
main_try ==
    /\ pc = "main_try"
    /\ phase' = "running"
    /\ pc' = "loop_top"
    /\ UNCHANGED <<pid, chassis, temp_source, main, frame, pool, ipmi,
                   logged, exit_status, exit_cause, signalled, calls,
                   startup, launches>>

\* line 404: temp_source.get_highest_temperature() is called
loop_sample ==
    /\ pc = "loop_top"
    /\ pool_map("pid_update")
    /\ UNCHANGED <<pid, chassis, temp_source, main, ipmi, logged, signalled,
                   calls, startup, launches>>

\* line 405: fan_speed = pid.update(highest_temperature)
loop_update ==
    /\ pc = "pid_update"
    /\ pid' = PID_update(pid, main.highest_temperature)
    /\ main' = [main EXCEPT !.fan_speed = PID_output(pid')]
    /\ pc' = "set_fan_speed"
    /\ UNCHANGED <<chassis, temp_source, phase, frame, pool, ipmi, logged,
                   exit_status, exit_cause, signalled, calls, startup,
                   launches>>

\* line 406: chassis.set_fan_speed(fan_speed)
loop_set_fan_speed ==
    /\ pc = "set_fan_speed"
    /\ set_fan_speed(main.fan_speed, "log")
    /\ UNCHANGED <<pid, temp_source, main, phase, pool, ipmi, logged,
                   exit_status, exit_cause, signalled, calls, startup,
                   launches>>

\* line 407 and log(): the cycle's record
loop_log ==
    /\ pc = "log"
    /\ logged' = [valid |-> TRUE,
                  TMP |-> main.highest_temperature, PCT |-> chassis.fan_speed,
                  PWM |-> chassis.pwm_value, P |-> pid.P_value,
                  I |-> pid.I_value, D |-> pid.D_value, E |-> pid.error]
    /\ pc' = "sleep"
    /\ UNCHANGED <<pid, chassis, temp_source, main, phase, frame, pool,
                   ipmi, exit_status, exit_cause, signalled, calls, startup,
                   launches>>

\* line 408: time.sleep(polling_interval), then the next tick
loop_sleep ==
    /\ pc = "sleep"
    /\ pc' = "loop_top"
    /\ UNCHANGED <<pid, chassis, temp_source, main, phase, frame, pool,
                   ipmi, logged, exit_status, exit_cause, signalled, calls,
                   startup, launches>>

\* line 412: sys.exit(1) in the handler, after set_pwm(pwm_safety) returned
sys_exit ==
    /\ pc = "sys_exit"
    /\ pc' = "exited"
    /\ exit_status' = 1
    /\ exit_cause' = "sys.exit"
    /\ UNCHANGED <<pid, chassis, temp_source, main, phase, frame, pool,
                   ipmi, logged, signalled, calls, startup, launches>>

\* SIGINT: Python raises KeyboardInterrupt in the main process at whatever
\* statement it is executing
sigint ==
    /\ pc # "exited"
    /\ signalled.kind = "none"
    /\ signalled' = [kind |-> "SIGINT", phase |-> phase, pc |-> pc]
    /\ Raise("KeyboardInterrupt")
    /\ UNCHANGED <<pid, chassis, temp_source, main, pool, ipmi, logged,
                   calls, startup, launches>>

\* SIGTERM: the program installs no handler, so the default action ends
\* the process at once, with no Python code run
sigterm ==
    /\ pc # "exited"
    /\ signalled.kind = "none"
    /\ signalled' = [kind |-> "SIGTERM", phase |-> phase, pc |-> pc]
    /\ pc' = "exited"
    /\ exit_status' = -15
    /\ exit_cause' = "SIGTERM"
    /\ UNCHANGED <<pid, chassis, temp_source, main, phase, frame, pool,
                   ipmi, logged, calls, startup, launches>>

---------------------------------------------------------------------------
(* The program: main() from line 400 on, with the signals it can receive   *)

\* the instances of the script that are started
Instances == {"a", "b", "c"}

\* an instance before its __main__ block
NotStarted ==
    [pc |-> "start", locked |-> FALSE, errno |-> "none", exit_status |-> 0,
     commanded |-> FALSE]

\* the state once main() has built chassis, pid and temp_source
Start(p, c, t, pc0, phase0) ==
    /\ pid = p
    /\ chassis = c
    /\ temp_source = t
    /\ main = [highest_temperature |-> 0, fan_speed |-> 0]
    /\ pc = pc0
    /\ phase = phase0
    /\ frame = NoFrame
    /\ pool = NoPool
    /\ ipmi = <<>>
    /\ logged = NoLog
    /\ exit_status = 0
    /\ exit_cause = "none"
    /\ signalled = [kind |-> "none", phase |-> "none", pc |-> "none"]
    /\ calls = <<>>
    /\ launches = [failed |-> 0, after_failure |-> 0]
    /\ startup = [i \in Instances |-> NotStarted]

Devices == {"da0", "da1", "da2"}

\* the columns of an attribute line after its label, up to the raw value:
\* "     0x0022   035   045   000    Old_age   Always       -       "
Word == <<"x">>
LineCols ==
    << <<<<>>>>, <<<<>>, <<>>, Word>>, <<Word>>, <<Word>>, <<Word>>,
       <<<<>>, Word>>, <<Word>>, <<<<>>>>, <<<<>>, <<"-">>>>, <<<<>>>> >>

\* the line with raw value tok, the line of a drive that prints n degrees,
\* output with no temperature line, and a line whose raw value is "-"
Line(tok) == SmartData(TRUE, Append(LineCols, <<<<>>, tok>>))
Text(n) == Line(StrInt(n))
NoLabel == SmartData(FALSE, <<>>)
NotANumber == Line(<<"-">>)

\* a line with a wider gap before the raw value, which the except block of
\* line 174 reads, and a line that ends after the label
Shifted(n) == SmartData(TRUE, LineCols \o << <<<<>>>>, <<<<>>, StrInt(n)>> >>)
LabelOnly == SmartData(TRUE, << <<<<>>>> >>)

MainTemps == {30, 45, 55}
MainOutputs ==
    {Text(n) : n \in MainTemps} \cup {NoLabel, NotANumber, LabelOnly}
MainChassis == {<<10, 64, 32>>, <<1, 50, 12>>}
MainGeom == {"ada0", "da0", "da1"}
MainBootDevices == {"ada0", "da0"}

Init ==
    \E c \in MainChassis, w \in {1, 2}, boot \in MainBootDevices :
        Start(PID_init(200, 100, 0, 0, 0, 10, 0, 35),
              FanControl_init(c[1], c[2], c[3]),
              get_temp_source(MainGeom, "da", boot, w), "main_init", "init")

Next ==
    \/ main_init
    \/ main_try
    \/ loop_sample
    \/ \E d \in Devices : worker_take(d)
    \/ \E d \in Devices, data \in MainOutputs : worker_done(d, data)
    \/ \E d \in Devices : worker_oserror(d)
    \/ pool_return
    \/ loop_update
    \/ loop_set_fan_speed
    \/ set_pwm_assign
    \/ set_pwm_popen
    \/ set_pwm_popen_oserror
    \/ set_pwm_store
    \/ loop_log
    \/ loop_sleep
    \/ sys_exit
    \/ sigint
    \/ sigterm

Spec == Init /\ [][Next]_vars

---------------------------------------------------------------------------
(* PID alone: update called with any temperatures                          *)

PidTemps == {0, 30, 35, 45, 100}
PidGains == {<<0, 0, 0>>, <<200, 1, 0>>, <<200, 100, 100>>, <<400, 0, 100>>}
PidBounds == {<<50, -50>>, <<100, 0>>, <<0, 0>>}
PidSeeds == {-60, 0, 60}
PidTargets == {30, 35}

IdleChassis == FanControl_init(1, 64, 32)
IdleSmart == get_temp_source({}, "da", "ada0", 1)
IdlePid == PID_init(0, 0, 0, 0, 0, 0, 0, 0)

InitPid ==
    \E g \in PidGains, b \in PidBounds, i0 \in PidSeeds, d0 \in {0, 1},
       target \in PidTargets :
        Start(PID_init(g[1], g[2], g[3], d0, i0, b[1], b[2], target),
              IdleChassis, IdleSmart, "idle", "call")

\* pid.update(current_value), the result kept as main's fan_speed
call_update(current_value) ==
    /\ pc \in {"idle", "returned"}
    /\ pc' = "returned"
    /\ pid' = PID_update(pid, current_value)
    /\ main' = [highest_temperature |-> current_value,
                fan_speed |-> PID_output(pid')]
    /\ UNCHANGED <<chassis, temp_source, phase, frame, pool, ipmi, logged,
                   exit_status, exit_cause, signalled, calls, startup,
                   launches>>

NextPid == \E t \in PidTemps : call_update(t)

SpecPid == InitPid /\ [][NextPid]_vars

---------------------------------------------------------------------------
(* FanControl alone: set_pwm and set_fan_speed called with any arguments   *)

PwmChassis ==
    {<<1, 64, 32>>, <<10, 64, 32>>, <<30, 50, 40>>, <<5, 100, 50>>,
     <<35, 45, 40>>}
PwmArgs == {-3, 0, 4, 20, 30, 39, 40, 50, 64, 65, 101}
Percents == {-1000, 150, 4700, 4800, 10000, 12000}

InitPwm ==
    \E c \in PwmChassis :
        Start(IdlePid, FanControl_init(c[1], c[2], c[3]), IdleSmart,
              "idle", "call")

\* chassis.set_pwm(value)
call_set_pwm(value) ==
    /\ pc \in {"idle", "returned"}
    /\ frame' = NewFrame(value, "returned")
    /\ pc' = "pwm_assign"
    /\ UNCHANGED <<pid, chassis, temp_source, main, phase, pool, ipmi,
                   logged, exit_status, exit_cause, signalled, calls,
                   startup, launches>>

\* chassis.set_fan_speed(percent)
call_set_fan_speed(percent) ==
    /\ pc \in {"idle", "returned"}
    /\ set_fan_speed(percent, "returned")
    /\ UNCHANGED <<pid, temp_source, main, phase, pool, ipmi, logged,
                   exit_status, exit_cause, signalled, calls, startup,
                   launches>>

NextPwm ==
    \/ \E v \in PwmArgs : call_set_pwm(v)
    \/ \E p \in Percents : call_set_fan_speed(p)
    \/ set_pwm_assign
    \/ set_pwm_popen
    \/ set_pwm_popen_oserror
    \/ set_pwm_store

SpecPwm == InitPwm /\ [][NextPwm]_vars

---------------------------------------------------------------------------
(* Smart alone: get_highest_temperature over any devices and readings      *)

MaxWorkers == 3
AggTemps == {0, 30, 40, 55}
AggOutputs ==
    {Text(n) : n \in AggTemps} \cup
    {NoLabel, NotANumber, LabelOnly, Shifted(40)}

InitAgg ==
    \E devs \in SUBSET Devices, w \in 1..MaxWorkers :
        Start(IdlePid, IdleChassis, get_temp_source(devs, "da", "ada0", w),
              "idle", "call")

\* temp_source.get_highest_temperature()
call_get_highest_temperature ==
    /\ pc \in {"idle", "returned"}
    /\ pool_map("returned")
    /\ UNCHANGED <<pid, chassis, temp_source, main, ipmi, logged, signalled,
                   calls, startup, launches>>

NextAgg ==
    \/ call_get_highest_temperature
    \/ \E d \in Devices : worker_take(d)
    \/ \E d \in Devices, data \in AggOutputs : worker_done(d, data)
    \/ \E d \in Devices : worker_oserror(d)
    \/ pool_return

SpecAgg == InitAgg /\ [][NextAgg]_vars

---------------------------------------------------------------------------
(* The loop fed a steady temperature, never interrupted                    *)

SteadyTemps == {45}
SteadySeeds == {0, 7990}
SteadyBounds == {<<30, 0>>, <<8000, 0>>, <<8020, -100>>}

InitE2E ==
    \E i0 \in SteadySeeds, b \in SteadyBounds, d0 \in {0, 1} :
        Start(PID_init(200, 1, 0, d0, i0, b[1], b[2], 35),
              FanControl_init(1, 64, 32), IdleSmart, "main_init", "init")

\* line 404 with the temperature source answering the steady temperature
loop_sample_steady ==
    /\ pc = "loop_top"
    /\ \E t \in SteadyTemps :
          /\ temp_source' = [temp_source EXCEPT !.highest_temperature = t]
          /\ main' = [main EXCEPT !.highest_temperature = t]
    /\ pc' = "pid_update"
    /\ UNCHANGED <<pid, chassis, phase, frame, pool, ipmi, logged,
                   exit_status, exit_cause, signalled, calls, startup,
                   launches>>

NextE2E ==
    \/ main_init
    \/ main_try
    \/ loop_sample_steady
    \/ loop_update
    \/ loop_set_fan_speed
    \/ set_pwm_assign
    \/ set_pwm_popen
    \/ set_pwm_store
    \/ loop_log
    \/ loop_sleep

\* the loop of line 403 has no exit of its own: while it is not interrupted
\* the next statement is always executed
SpecE2E == InitE2E /\ [][NextE2E]_vars /\ WF_vars(NextE2E)

---------------------------------------------------------------------------
(* The __main__ block: instances of the script and the lock on ".lock"     *)

\* the instance holds the lock: lockf returned, and the instance lives (the
\* system drops the lock of a process that ends)
Holds(i) == startup[i].locked /\ startup[i].pc # "exited"

\* the errno values other than EAGAIN that fcntl gives for F_SETLK: EACCES
\* is what some systems give for a lock held by another process
OtherErrnos == {"EACCES", "ENOLCK"}

RestIdle ==
    UNCHANGED <<pid, chassis, temp_source, main, pc, phase, frame, pool,
                ipmi, logged, exit_status, exit_cause, signalled, calls,
                launches>>

\* line 418: f = open(".lock", "w")
open_lock(i) ==
    /\ startup[i].pc = "start"
    /\ startup' = [startup EXCEPT ![i].pc = "lockf"]
    /\ RestIdle

\* line 418: open raises IOError, which nothing catches
open_lock_ioerror(i) ==
    /\ startup[i].pc = "start"
    /\ startup' = [startup EXCEPT ![i].pc = "exited", ![i].exit_status = 1]
    /\ RestIdle

\* line 420: lockf returns, no other instance holding the lock
lockf_acquired(i) ==
    /\ startup[i].pc = "lockf"
    /\ \A j \in Instances \ {i} : ~Holds(j)
    /\ startup' = [startup EXCEPT ![i].pc = "main", ![i].locked = TRUE]
    /\ RestIdle

\* lines 421-424: IOError with errno EAGAIN, another instance holding the
\* lock: sys.exit(-1), which is exit status 255
lockf_eagain(i) ==
    /\ startup[i].pc = "lockf"
    /\ \E j \in Instances \ {i} : Holds(j)
    /\ startup' = [startup EXCEPT ![i].pc = "exited", ![i].errno = "EAGAIN",
                                  ![i].exit_status = (-1) % 256]
    /\ RestIdle

\* lines 421-422: IOError with another errno: the test of line 422 fails,
\* the except block ends and line 426 calls main()
lockf_ioerror(i, e) ==
    /\ startup[i].pc = "lockf"
    /\ e = "EACCES" => \E j \in Instances \ {i} : Holds(j)
    /\ startup' = [startup EXCEPT ![i].pc = "main", ![i].errno = e]
    /\ RestIdle

\* line 426 to line 402: main() sets the fans to pwm_min and enters the loop
instance_main(i) ==
    /\ startup[i].pc = "main"
    /\ startup' = [startup EXCEPT ![i].pc = "loop", ![i].commanded = TRUE]
    /\ RestIdle

\* lines 410-412: the instance leaves the loop and ends
instance_exit(i) ==
    /\ startup[i].pc = "loop"
    /\ startup' = [startup EXCEPT ![i].pc = "exited", ![i].exit_status = 1]
    /\ RestIdle

InitLock == Start(IdlePid, IdleChassis, IdleSmart, "idle", "call")

NextLock ==
    \E i \in Instances :
        \/ open_lock(i)
        \/ open_lock_ioerror(i)
        \/ lockf_acquired(i)
        \/ lockf_eagain(i)
        \/ \E e \in OtherErrnos : lockf_ioerror(i, e)
        \/ instance_main(i)
        \/ instance_exit(i)

SpecLock == InitLock /\ [][NextLock]_vars

---------------------------------------------------------------------------
(* Properties                                                              *)

\* the texts of a command's zone codes; cmd is ipmitool_args.split()
RearOf(cmd) == Tail(Tail(cmd[6]))
Front1Of(cmd) == Tail(Tail(cmd[8]))
Front2Of(cmd) == Tail(Tail(cmd[9]))

\* the command as ipmitool is launched with it
Launched(cmd) == <<IPMITOOL>> \o cmd

\* C1 (SpecPid): after every PID.update, whatever the temperatures fed in,
\* Integrator_min <= Integrator <= Integrator_max.
C1_IntegratorWithinBounds ==
    pc = "returned" =>
        /\ pid.Integrator_min <= pid.Integrator
        /\ pid.Integrator <= pid.Integrator_max

\* an update whose error alone exceeds the upper bound has been clamped
C1_Witness ==
    /\ pc = "returned"
    /\ pid.error > pid.Integrator_max - pid.Integrator_min
    /\ pid.Integrator = pid.Integrator_max

\* C2 (SpecPwm): in every state reached by set_pwm and set_fan_speed calls
\* with any arguments, pwm_value is 0 or lies in pwm_min..pwm_max.
C2_PwmValueInRange ==
    \/ chassis.pwm_value = 0
    \/ /\ chassis.pwm_min <= chassis.pwm_value
       /\ chassis.pwm_value <= chassis.pwm_max

\* a call with an argument above pwm_max has stored pwm_max
C2_Witness ==
    /\ pc = "returned"
    /\ frame.arg > chassis.pwm_max
    /\ chassis.pwm_value = chassis.pwm_max

\* C3 (Spec), as claimed: when SIGINT arrives in RUNNING and the handler
\* runs to its sys.exit, the last command ipmitool was launched with is
\* the one for pwm_safety, and the exit status is not 0.
C3_LastCommandIsSafety ==
    (/\ pc = "exited"
     /\ signalled.kind = "SIGINT"
     /\ signalled.phase = "running"
     /\ exit_cause = "sys.exit")
    => /\ ipmi = Launched(IpmiArgs(chassis.pwm_safety))
       /\ exit_status # 0

\* C4 (Spec), as claimed: whenever the process ends after entering the
\* loop, other than by SIGTERM, set_pwm(pwm_safety) was executed first.
C4_SafetyOnEveryExit ==
    (/\ pc = "exited"
     /\ phase # "init"
     /\ exit_cause # "SIGTERM")
    => phase = "shutdown"

\* two set_pwm calls in a row with the same argument have both returned
TwiceInARow ==
    /\ pc = "returned"
    /\ Len(calls) = 2
    /\ calls[1].arg = calls[2].arg

\* the number of hardware writes of the last two calls
WritesOfLastTwo ==
    (IF calls[1].wrote THEN 1 ELSE 0) + (IF calls[2].wrote THEN 1 ELSE 0)

\* C5 (SpecPwm), as claimed: set_pwm(x) called twice in a row, from any
\* reachable state, launches ipmitool exactly once over the two calls.
C5_ExactlyOneWrite == TwiceInARow => WritesOfLastTwo = 1

\* C5 (SpecPwm), amended: set_pwm(x) called twice in a row launches
\* ipmitool at most once: the second call never writes, and the first
\* writes exactly when the clamped x differs from previous_pwm_value as it
\* was before the first call (so from the initial state set_pwm(0) twice
\* writes nothing).
C5_AtMostOneWrite ==
    TwiceInARow =>
        /\ ~calls[2].wrote
        /\ calls[1].wrote <=>
             (ClampPwm(calls[1].arg, chassis.pwm_min, chassis.pwm_max)
                # calls[1].pre)
        /\ WritesOfLastTwo <= 1

\* the same argument twice, the first call writing
C5_Witness == TwiceInARow /\ calls[1].wrote /\ calls[1].arg > 0

\* C6 (SpecPwm): a set_pwm call with an argument above pwm_max leaves
\* pwm_value and previous_pwm_value, decides to write or not, and builds
\* and sends the command exactly as set_pwm(pwm_max) does from the same
\* previous_pwm_value.
C6_AboveMaxAsMax ==
    (pc = "returned" /\ frame.arg > chassis.pwm_max) =>
        LET r == set_pwm_run(frame.pre, chassis.pwm_max, chassis.pwm_min,
                             chassis.pwm_max)
        IN /\ chassis.pwm_value = r.pwm_value
           /\ chassis.previous_pwm_value = r.previous_pwm_value
           /\ frame.wrote = r.wrote
           /\ frame.ipmitool_args = r.ipmitool_args
           /\ frame.wrote => ipmi = Launched(r.ipmitool_args)

\* a call above pwm_max that wrote to the hardware
C6_Witness ==
    /\ pc = "returned"
    /\ frame.arg > chassis.pwm_max
    /\ frame.wrote

C8_Settings == chassis.pwm_min <= 30 /\ chassis.pwm_max >= 50

\* the rear code reads n: n as an int or as a float
RearReads(cmd, n) == RearOf(cmd) \in {StrInt(n), StrHalf(2 * n)}

SetMax(S) == CHOOSE m \in S : \A x \in S : x <= m

\* the readings the workers returned in the pass
Readings == {pool.results[d] : d \in DOMAIN pool.results}

\* C9 (SpecAgg): whenever get_highest_temperature returns, for any devices,
\* readings, pool width and order in which the workers finish, it returns
\* the largest of the readings and 0: 55 over the readings 40, 55, 30, and
\* 0 over no devices.
C9_HighestIsMaximum ==
    pool.state = "returned" =>
        /\ DOMAIN pool.results = temp_source.block_devices
        /\ main.highest_temperature = SetMax(Readings \cup {0})
        /\ temp_source.highest_temperature = main.highest_temperature
        /\ temp_source.block_devices = {} => main.highest_temperature = 0
        /\ (\E o \in Orders(temp_source.block_devices) :
                ResultList([pool EXCEPT !.order = o]) = <<40, 55, 30>>)
             => main.highest_temperature = 55

\* three devices read 40, 55 and 30 through a pool narrower than the
\* device set, and 55 came back
C9_Witness ==
    /\ pool.state = "returned"
    /\ Cardinality(temp_source.block_devices) = 3
    /\ temp_source.smart_workers = 2
    /\ ResultList(pool) = <<40, 55, 30>>
    /\ main.highest_temperature = 55

\* the fan percentage of a tick never falls below that of the tick before
C10_NonDecreasing ==
    [][/\ (pc = "log" /\ logged.valid) => logged'.PCT >= logged.PCT
       /\ (pc = "set_fan_speed" /\ logged.valid)
            => chassis'.fan_speed >= chassis.fan_speed]_vars

\* the fan percentage computed, recorded and logged is the one of the
\* tick before
C10_Stable ==
    /\ logged.valid
    /\ main.fan_speed = logged.PCT
    /\ chassis.fan_speed = logged.PCT

\* no fan percentage handed to set_fan_speed, or recorded by it and
\* logged, exceeds p hundredths
C10_AtMost(p) ==
    /\ main.fan_speed <= p
    /\ logged.PCT <= p

AtTarget == pc = "returned" /\ main.highest_temperature = pid.set_point

\* the output is the integral term alone
IntegralOnly ==
    /\ pid.error = 0
    /\ pid.P_value = 0
    /\ pid.D_value = 0
    /\ main.fan_speed = pid.Ki * pid.Integrator

\* C11 (SpecPid), as claimed: every update called with the target has
\* error 0 and returns Ki * Integrator alone, the P and D terms being 0,
\* and from one such call to the next the integrator and the output stay
\* the same.
C11_AtTargetIntegralOnly ==
    /\ [](AtTarget => IntegralOnly)
    /\ [][AtTarget /\ AtTarget' =>
            /\ pid'.Integrator = pid.Integrator
            /\ main'.fan_speed = main.fan_speed]_vars

\* C11 (SpecPid), amended: every update called with the target has error 0
\* and P term 0, and its D term is Kd times the derivator it found (the
\* previous error, or the seed); an update with the target that follows
\* another one returns Ki * Integrator alone, with the integrator and that
\* output the same as after every later such call.
C11_AtTargetAmended ==
    /\ [](AtTarget => pid.error = 0 /\ pid.P_value = 0 /\ pid.Derivator = 0)
    /\ [][AtTarget' /\ vars' # vars =>
            /\ pid'.D_value = pid.Kd * pid.Derivator
            /\ main'.fan_speed = pid.Ki * pid'.Integrator + pid'.D_value]_vars
    /\ [][AtTarget /\ AtTarget' =>
            /\ pid'.Integrator = pid.Integrator
            /\ pid'.D_value = 0
            /\ main'.fan_speed = pid.Ki * pid.Integrator]_vars

\* an update with the target whose D term is not 0: it found the error of
\* an update with another temperature, or a seed
C11_Witness ==
    /\ AtTarget
    /\ pid.D_value # 0
    /\ pid.Ki # 0
    /\ pid.Integrator # 0
    /\ main.fan_speed = pid.Ki * pid.Integrator + pid.D_value

\* a set_fan_speed(percent) with percent in 0..100 has returned
FanSpeedSet ==
    /\ pc = "returned"
    /\ frame.caller = "set_fan_speed"
    /\ 0 <= chassis.fan_speed
    /\ chassis.fan_speed <= 100 * 100

\* what set_pwm makes of a raw code
Clamped(code) ==
    IF code > chassis.pwm_max /\ chassis.pwm_max < chassis.pwm_min THEN 0
    ELSE IF code > chassis.pwm_max THEN chassis.pwm_max
    ELSE IF code < chassis.pwm_min THEN 0
    ELSE code

InLoop == {i \in Instances : startup[i].pc \in {"main", "loop"}}

\* C13 (SpecLock), as claimed: at no time are two instances both past the
\* lock acquisition and able to command the fans, and an instance whose
\* lock call failed, whatever the errno, has ended with a non-zero status
\* without any fan command.
C13_SingleInstance ==
    /\ Cardinality(InLoop) <= 1
    /\ \A i \in Instances :
          startup[i].errno # "none" =>
              /\ startup[i].pc = "exited"
              /\ startup[i].exit_status # 0
              /\ ~startup[i].commanded

\* the devices handed to the pool by the sampling pass in progress
Sampled == {pool.order[k] : k \in 1..Len(pool.order)}

\* C14 (Spec), as claimed: the configured boot device is never among the
\* devices a sampling pass is given, whatever boot_device is configured,
\* and the device set does not change from tick to tick.
C14_BootDeviceExcluded ==
    /\ [](temp_source.boot_device \notin Sampled)
    /\ [][temp_source'.block_devices = temp_source.block_devices]_vars

\* x limited to lo..hi
Limited(x, lo, hi) == IF x > hi THEN hi ELSE IF x < lo THEN lo ELSE x

Unparsed ==
    {d \in DOMAIN pool.read :
        LET v == get_parameter_from_smart(pool.read[d], TEMPERATURE_DISTANCE)
        IN v.type # "str" \/ ~IsIntText(v.text)}

\* C16 (Spec), as claimed: a device whose temperature cannot be parsed
\* reads 0, no sampling pass is aborted by it, get_highest_temperature
\* returns the largest reading of the other devices, and the process does
\* not end on the exception.
C16_UnparsedReadsZero ==
    /\ \A d \in Unparsed : d \in DOMAIN pool.results /\ pool.results[d] = 0
    /\ ~pool.failed
    /\ pool.state = "returned" =>
          main.highest_temperature =
              SetMax({pool.results[d] : d \in DOMAIN pool.results \ Unparsed}
                     \cup {0})
    /\ exit_cause \notin {"ValueError", "IndexError"}

\* a failed launch of ipmitool leaves previous_pwm_value and the record of
\* the last command launched as they were
FailedLaunchStoresNothing ==
    [][launches'.failed > launches.failed =>
        /\ chassis'.previous_pwm_value = chassis.previous_pwm_value
        /\ ipmi' = ipmi]_vars

\* after a failed launch the loop is not continued, and the process ends
\* with a status that is not 0
FailedLaunchIsFatal ==
    launches.failed > 0 =>
        /\ pc = "exited" \/ phase = "shutdown"
        /\ pc = "exited" => exit_status # 0

\* C17 (Spec), as claimed: a failed launch of ipmitool ends the process
\* with a non-zero status, no launch of ipmitool is tried after the failed
\* one, and the failed call leaves previous_pwm_value unchanged.
C17_NoFurtherAttempt ==
    /\ [](launches.after_failure = 0)
    /\ []FailedLaunchIsFatal
    /\ FailedLaunchStoresNothing

\* C17 (Spec), amended: a failed launch of ipmitool ends the process with a
\* non-zero status and the failed call leaves previous_pwm_value unchanged;
\* the loop is not continued and the failed command is not tried again,
\* but when the launch failed inside the loop the shutdown handler's
\* set_pwm(pwm_safety) tries one more launch, the only one after the
\* failure.
C17_OnlyTheSafetyWrite ==
    /\ [](launches.after_failure <= 1)
    /\ [](launches.after_failure = 1 =>
            /\ phase = "shutdown"
            /\ frame.arg = chassis.pwm_safety
            /\ frame.ret = "sys_exit")
    /\ []FailedLaunchIsFatal
    /\ FailedLaunchStoresNothing

\* a launch failed inside the loop, the handler's launch of the safety
\* command went through, and the process has ended with status 1
C17_Witness ==
    /\ pc = "exited"
    /\ launches.failed = 1
    /\ launches.after_failure = 1
    /\ ipmi = Launched(IpmiArgs(chassis.pwm_safety))
    /\ chassis.previous_pwm_value = chassis.pwm_safety
    /\ exit_status = 1

\* the places of the loop between two ticks: before the sampling of line
\* 404, and in the sleep of line 408
BetweenTicks == {"loop_top", "sleep"}

\* C18 (Spec), as claimed: the shutdown that a signal received in the loop
\* starts, starts between two ticks: the signal took the process at the
\* loop boundary, never inside the sampling, the PID update, a partly
\* executed set_pwm or the logging of a tick.
C18_SignalAtBoundary ==
    (/\ phase = "shutdown"
     /\ signalled.kind = "SIGINT"
     /\ signalled.phase = "running")
    => signalled.pc \in BetweenTicks

\* the four zone codes of a command: CPU, REAR, FRNT1, FRNT2
ZoneCodes(cmd) == <<cmd[4], cmd[6], cmd[8], cmd[9]>>

\* the command has the fixed words of "raw 0x3a 0x01 CPU 0x00 REAR 0x00
\* FRNT1 FRNT2 0x00 0x00" around its zone codes, and CPU is 0x00
FixedShape(cmd) ==
    /\ Len(cmd) = 11
    /\ cmd[1] = <<"r", "a", "w">>
    /\ cmd[2] = <<"0", "x", "3", "a">>
    /\ cmd[3] = <<"0", "x", "0", "1">>
    /\ cmd[4] = <<"0", "x", "0", "0">>
    /\ \A k \in {5, 7, 10, 11} : cmd[k] = <<"0", "x", "0", "0">>
    /\ \A k \in 1..4 : SubSeq(ZoneCodes(cmd)[k], 1, 2) = <<"0", "x">>

\* the commands set_pwm has built: that of the call in progress or just
\* returned, and the last one launched
Built ==
    (IF frame.ipmitool_args = <<>> THEN {} ELSE {frame.ipmitool_args})
    \cup (IF ipmi = <<>> THEN {} ELSE {Tail(ipmi)})

\* C19 (SpecPwm), as claimed: every command built has the fixed shape with
\* CPU 0x00, FRNT1 and FRNT2 carry the clamped value, and each of the four
\* zone codes is 0x followed by exactly two digits.
C19_TwoDigitCodes ==
    /\ \A cmd \in Built :
          /\ FixedShape(cmd)
          /\ \A k \in 1..4 :
                /\ Len(ZoneCodes(cmd)[k]) = 4
                /\ IsDigit(ZoneCodes(cmd)[k][3])
                /\ IsDigit(ZoneCodes(cmd)[k][4])
    /\ frame.ipmitool_args # <<>> =>
          /\ IntOfText(Front1Of(frame.ipmitool_args)) = frame.value
          /\ IntOfText(Front2Of(frame.ipmitool_args)) = frame.value

\* the number of decimal digits of n >= 0, for n below 1000
DigitCount(n) == IF n < 10 THEN 1 ELSE IF n < 100 THEN 2 ELSE 3

\* C19 (SpecPwm), amended: every command built has the fixed shape with
\* CPU 0x00; FRNT1 and FRNT2 are 0x followed by the clamped value in
\* decimal without padding (one digit below 10, three from 100 on); REAR
\* is 0x00, or 0x followed by the same digits as FRNT1.
C19_UnpaddedCodes ==
    /\ \A cmd \in Built :
          /\ FixedShape(cmd)
          /\ cmd[8] = cmd[9]
          /\ \A k \in 1..Len(Front1Of(cmd)) : IsDigit(Front1Of(cmd)[k])
          /\ Len(Front1Of(cmd)) = DigitCount(IntOfText(Front1Of(cmd)))
          /\ cmd[6] = <<"0", "x", "0", "0">> \/ cmd[6] = cmd[8]
    /\ frame.ipmitool_args # <<>> =>
          /\ IntOfText(Front1Of(frame.ipmitool_args)) = frame.value
          /\ frame.value = Clamped(frame.arg)
          /\ chassis.pwm_value = frame.value

\* a command with the one-digit front codes 0x4 was launched, after one
\* with two-digit codes
C19_Witness ==
    /\ pc = "returned"
    /\ frame.wrote
    /\ frame.value = 4
    /\ Tail(ipmi) = frame.ipmitool_args
    /\ ZoneCodes(Tail(ipmi)) =
          << <<"0", "x", "0", "0">>, <<"0", "x", "0", "0">>,
             <<"0", "x", "4">>, <<"0", "x", "4">> >>
    /\ Len(calls) = 2
    /\ calls[1].wrote
    /\ calls[1].arg = 50

\* C20 (SpecPwm): between set_pwm calls that have each run to completion,
\* once a command has been launched, previous_pwm_value equals pwm_value
\* and the value the front codes of the last command launched carry; as
\* long as none has been launched previous_pwm_value is 0, and a call that
\* finds it 0 and clamps to 0 launches nothing.
C20_PreviousIsLastWritten ==
    pc \in {"idle", "returned"} =>
        /\ ipmi # <<>> =>
              /\ chassis.previous_pwm_value = chassis.pwm_value
              /\ IntOfText(Front1Of(Tail(ipmi))) = chassis.previous_pwm_value
              /\ IntOfText(Front2Of(Tail(ipmi))) = chassis.previous_pwm_value
        /\ ipmi = <<>> =>
              /\ chassis.previous_pwm_value = 0
              /\ chassis.pwm_value = 0
              /\ \A k \in 1..Len(calls) : ~calls[k].wrote
        /\ (pc = "returned" /\ frame.pre = 0 /\ frame.value = 0) =>
              ~frame.wrote

\* a call that launched a command, then a call that launched none because
\* its value was the one already sent
C20_Witness ==
    /\ pc = "returned"
    /\ Len(calls) = 2
    /\ calls[1].wrote
    /\ ~calls[2].wrote
    /\ calls[2].arg # calls[1].arg
    /\ chassis.previous_pwm_value = chassis.pwm_max
    /\ chassis.pwm_value = chassis.pwm_max
    /\ IntOfText(Front1Of(Tail(ipmi))) = chassis.pwm_max

=============================================================================
